---- MODULE Spec2Model ----
(***************************************************************************)
(* State-machine model of the user-management service in src/backend:      *)
(* the account table (users/models.py), the request handlers               *)
(* (users/views.py), the serializers that validate their payloads          *)
(* (users/serializers.py), the permission classes (users/permissions.py)   *)
(* and the exception handler (users/exceptions.py).                        *)
(*                                                                         *)
(* Strings are sequences of one-character strings, so that lower(),        *)
(* strip() and normalize_email() are computed character by character.      *)
(* timezone.now() is later than every time stored before it was read; a    *)
(* timestamp column is modelled by the ordinal of the write that stamped   *)
(* it (0 for a null last_login), which is all that comparing a column      *)
(* before and after a request needs.                                       *)
(***************************************************************************)
EXTENDS Integers, Sequences, FiniteSets, TLC

(* ------------------------------ bounds --------------------------------- *)

\* Number of rows the account table may hold.
MaxUsers == 2

\* Number of refresh tokens that may be issued.
MaxTokens == 2

\* Largest ordinal of updated_at: number of stamping saves of one row.
MaxStamp == 3

\* Number of requests that may be between their validation and their write.
MaxInFlight == 1

(* ------------------------------ strings -------------------------------- *)

UpperAlpha ==
  <<"A","B","C","D","E","F","G","H","I","J","K","L","M",
    "N","O","P","Q","R","S","T","U","V","W","X","Y","Z">>

LowerAlpha ==
  <<"a","b","c","d","e","f","g","h","i","j","k","l","m",
    "n","o","p","q","r","s","t","u","v","w","x","y","z">>

Digits == {"0","1","2","3","4","5","6","7","8","9"}

Range(s) == { s[i] : i \in DOMAIN s }

UpperSet == Range(UpperAlpha)

LowerSet == Range(LowerAlpha)

\* str.lower() on one character
LowerChar(c) ==
  IF c \in UpperSet
    THEN LowerAlpha[CHOOSE i \in DOMAIN UpperAlpha : UpperAlpha[i] = c]
    ELSE c

\* str.lower()
Lower(s) == [i \in DOMAIN s |-> LowerChar(s[i])]

\* str.strip(): drop leading and trailing blanks
Strip(s) ==
  LET nb == { i \in DOMAIN s : s[i] # " " }
  IN  IF nb = {} THEN <<>>
      ELSE LET lo == CHOOSE i \in nb : \A j \in nb : i <= j
               hi == CHOOSE i \in nb : \A j \in nb : j <= i
           IN  SubSeq(s, lo, hi)

\* BaseUserManager.normalize_email: lower-cases the part after the last "@"
\* only; the local part is kept as given.
normalize_email(email) ==
  LET ats == { i \in DOMAIN email : email[i] = "@" }
  IN  IF ats = {} THEN email
      ELSE LET k == CHOOSE i \in ats : \A j \in ats : j <= i
           IN  SubSeq(email, 1, k) \o Lower(SubSeq(email, k + 1, Len(email)))

\* email_regex = ^[a-zA-Z0-9._%+-]+@[a-zA-Z0-9.-]+\.[a-zA-Z]{2,}$
LocalChars == UpperSet \cup LowerSet \cup Digits \cup {".","_","%","+","-"}

DomainChars == UpperSet \cup LowerSet \cup Digits \cup {".","-"}

email_regex(s) ==
  \E a \in DOMAIN s : \E d \in DOMAIN s :
    /\ s[a] = "@"
    /\ s[d] = "."
    /\ 1 < a
    /\ a + 1 < d
    /\ d + 2 <= Len(s)
    /\ \A i \in 1..(a - 1) : s[i] \in LocalChars
    /\ \A i \in (a + 1)..(d - 1) : s[i] \in DomainChars
    /\ \A i \in (d + 1)..Len(s) : s[i] \in UpperSet \cup LowerSet

(* ------------------------------ passwords ------------------------------ *)

\* The symbols of the character class [!@#$%^&*(),.?":{}|<>]
Symbols ==
  {"!","@","#","$","%","^","&","*","(",")",",",".","?","\"",":","{","}","|","<",">"}

\* Passwords refused by django.contrib.auth.password_validation
\* (the configured validators are outside the source files).
CommonPasswords == { <<"P","a","s","s","w","o","r","d","1","!">> }

django_validate_password(p) == p \notin CommonPasswords

\* validate_password as it would be without the special-character rule
validate_password_noSymbol(p) ==
  /\ Len(p) >= 8
  /\ \E i \in DOMAIN p : p[i] \in UpperSet
  /\ \E i \in DOMAIN p : p[i] \in LowerSet
  /\ \E i \in DOMAIN p : p[i] \in Digits
  /\ django_validate_password(p)

\* UserSignupSerializer.validate_password / ChangePasswordSerializer.validate_new_password
validate_password(p) ==
  /\ Len(p) >= 8
  /\ \E i \in DOMAIN p : p[i] \in UpperSet
  /\ \E i \in DOMAIN p : p[i] \in LowerSet
  /\ \E i \in DOMAIN p : p[i] \in Digits
  /\ \E i \in DOMAIN p : p[i] \in Symbols
  /\ django_validate_password(p)

\* AbstractBaseUser.set_password stores a hash, never the plain text.
make_password(p) == [algo |-> "pbkdf2_sha256", of |-> p]

\* AbstractBaseUser.check_password
check_password(p, h) == h = make_password(p)

(* ------------------------------ inputs --------------------------------- *)

EmailLower == <<"a","@","x",".","i","o">>

EmailUpperLocal == <<"A","@","x",".","i","o">>

EmailUpperDomain == <<"b","@","X",".","i","o">>

EmailBad == <<"a","@","x">>

\* An address sent with a leading blank
EmailPadded == <<" ","c","@","x",".","i","o">>

\* create_admin.py: admin_email = 'admin@example.com'
admin_email ==
  <<"a","d","m","i","n","@","e","x","a","m","p","l","e",".","c","o","m">>

\* create_admin.py: admin_password = 'AdminPass123!'
admin_password == <<"A","d","m","i","n","P","a","s","s","1","2","3","!">>

\* create_admin.py: admin_name = 'Admin User'
admin_name == <<"A","d","m","i","n"," ","U","s","e","r">>

EmailInputs == { EmailLower, EmailUpperLocal, EmailUpperDomain, EmailBad }

PwGood == <<"A","b","c","d","e","f","1","!">>

PwOther == <<"X","y","z","u","v","w","2","?">>

PwWeak == <<"a","b","c","d","e","f","g","h">>

\* PwGood sent with a leading blank
PwPadded == <<" ">> \o PwGood

\* Passwords that break one strength rule each
PwShort == <<"A","b","c","d","e","1","!">>

PwNoUpper == <<"a","b","c","d","e","f","1","!">>

PwNoLower == <<"A","B","C","D","E","F","1","!">>

PwNoDigit == <<"A","b","c","d","e","f","g","!">>

PwNoSymbol == <<"A","b","c","d","e","f","g","1">>

\* PwShort sent with a trailing blank: eight characters as sent
PwShortPadded == PwShort \o <<" ">>

\* A password that only the generic validators refuse
PwCommon == <<"P","a","s","s","w","o","r","d","1","!">>

\* The candidate passwords tried against the strength rules
PwCandidates ==
  { PwGood, PwOther, PwPadded, PwShort, PwShortPadded, PwNoUpper, PwNoLower,
    PwNoDigit, PwNoSymbol, PwCommon }

PwInputs == { PwGood, PwOther, PwWeak }

\* A field that the payload does not carry
Absent == <<"(absent)">>

NameOther == <<"B","o"," ">>

NameGood == <<" ","A","l">>

NameShort == <<"A">>

NameInputs == { NameGood, NameShort }


(* ------------------------------ state ---------------------------------- *)

VARIABLES
  users,        \* the account table: users[id] is the row with primary key id
  outstanding,  \* refresh tokens issued: outstanding[jti] is the owner's id
  blacklist,    \* jti of the refresh tokens blacklisted by logout
  access,       \* access tokens issued: records [owner]
  inflight,     \* requests that have validated but not yet written
  last          \* the response to the last request

vars == <<users, outstanding, blacklist, access, inflight, last>>

\* A request without an Authorization header
NoCred == [owner |-> 0, valid |-> FALSE]

\* What a request may carry as its bearer token: nothing, or an access
\* token that was issued, still valid or expired by now
Creds ==
  {NoCred} \cup
  { [owner |-> t.owner, valid |-> v] : t \in access, v \in BOOLEAN }

\* A response, with what the request was: op is the endpoint, code the HTTP
\* status, kind the error class ("ok" on success), caller the account the
\* presented access token was issued to (0: no token), authed whether that
\* token was accepted, target the id in the path or the account acted on,
\* issued whether the body carries tokens, data the user projections in the
\* body or, for a validation error, the names of the fields refused.
Resp(op, code, kind, cred, target, issued, data) ==
  [op |-> op, code |-> code, kind |-> kind,
   caller |-> cred.owner, authed |-> cred.valid,
   target |-> target, issued |-> issued, data |-> data]

\* User.objects.filter(email=e): exact, case-sensitive match on the column
ByEmail(tbl, e) == { i \in DOMAIN tbl : tbl[i].email = e }

\* No response is on its way to a client
Idle == Resp("none", 0, "none", NoCred, 0, FALSE, {})

Init ==
  /\ users = <<>>
  /\ outstanding = <<>>
  /\ blacklist = {}
  /\ access = {}
  /\ inflight = {}
  /\ last = Idle

(* ------------------------------ account store -------------------------- *)

\* UserManager.create_user: the row that user.save() inserts
create_user(email, password, full_name, role, staff) ==
  [email |-> normalize_email(email),
   full_name |-> full_name,
   password |-> make_password(password),
   role |-> role,
   status |-> "active",
   is_staff |-> staff,
   is_superuser |-> staff,
   created_at |-> 1,
   updated_at |-> 1,
   last_login |-> 0]

\* get_tokens_for_user: RefreshToken.for_user records the refresh token as
\* outstanding; the access token is derived from it
TokensFor(uid) ==
  /\ Len(outstanding) < MaxTokens
  /\ outstanding' = Append(outstanding, uid)
  /\ access' = access \cup {[owner |-> uid]}

\* UserSerializer: the projection of a row that a response body carries
UserSerializer(tbl, id) ==
  [id |-> id, email |-> tbl[id].email, full_name |-> tbl[id].full_name,
   role |-> tbl[id].role, status |-> tbl[id].status,
   created_at |-> tbl[id].created_at, updated_at |-> tbl[id].updated_at,
   last_login |-> tbl[id].last_login]

\* The unique index on users.email: an INSERT (self = 0) or an UPDATE of row
\* self with this email raises IntegrityError
UniqueViolation(tbl, email, self) == ByEmail(tbl, email) \ {self} # {}

\* Model.save() of a loaded copy: every column is written, and auto_now
\* stamps updated_at with a time later than the one stored
SaveRow(tbl, id, row) ==
  [tbl EXCEPT ![id] = [row EXCEPT !.updated_at = tbl[id].updated_at + 1]]

(* ------------------------------ seed path ------------------------------ *)

\* create_admin.Command.handle: creates the default admin unless a row with
\* exactly that email exists
CreateAdmin ==
  /\ Len(users) < MaxUsers
  /\ ByEmail(users, admin_email) = {}
  /\ users' = Append(users,
       create_user(admin_email, admin_password, admin_name, "admin", TRUE))
  /\ last' = Resp("create_admin", 0, "ok", NoCred, Len(users'), FALSE, {})
  /\ UNCHANGED <<outstanding, blacklist, access, inflight>>

\* UserManager.create_user / create_superuser called directly (tests, shell):
\* no existence check other than the unique index
Seed(email, password, role) ==
  /\ Len(users) < MaxUsers
  /\ email # <<>>
  /\ LET row == create_user(email, password, Strip(NameGood), role, role = "admin")
     IN  IF UniqueViolation(users, row.email, 0)
           THEN /\ last' = Resp("seed", 500, "fault", NoCred, 0, FALSE, {})
                /\ UNCHANGED users
           ELSE /\ users' = Append(users, row)
                /\ last' = Resp("seed", 0, "ok", NoCred, Len(users'), FALSE, {})
  /\ UNCHANGED <<outstanding, blacklist, access, inflight>>

(* ------------------------------ signup --------------------------------- *)

\* serializers.CharField(trim_whitespace=True)
CharField(v) == Strip(v)

\* The fields of a signup payload that UserSignupSerializer rejects:
\* the model field's UniqueValidator (exact match on the trimmed value),
\* then validate_email, validate_full_name, min_length and
\* validate_password; validate() compares the two passwords only when no
\* field failed.
SignupErrors(tbl, d) ==
  LET email == CharField(d.email)
      fe == (IF \/ ByEmail(tbl, email) # {}
                \/ ~email_regex(email)
                \/ ByEmail(tbl, Lower(email)) # {}
               THEN {"email"} ELSE {})
            \cup (IF Len(Strip(CharField(d.full_name))) < 2
                    THEN {"full_name"} ELSE {})
            \cup (IF ~validate_password(CharField(d.password))
                    THEN {"password"} ELSE {})
  IN  IF fe # {} THEN fe
      ELSE IF CharField(d.password) # CharField(d.confirm_password)
        THEN {"confirm_password"}
      ELSE {}

\* validated_data as it would be if validate_email returned the value as is
SignupValidated_asSent(d) ==
  [email |-> CharField(d.email),
   full_name |-> Strip(CharField(d.full_name)),
   password |-> CharField(d.password)]

\* validated_data of a valid signup payload
SignupValidated(d) ==
  [email |-> Lower(CharField(d.email)),
   full_name |-> Strip(CharField(d.full_name)),
   password |-> CharField(d.password)]

\* UserSignupSerializer.create followed by get_tokens_for_user, at the
\* moment of the INSERT: the unique index has the last word, and the
\* IntegrityError it raises is caught nowhere (custom_exception_handler
\* returns None for it)
SignupWrite(v) ==
  IF UniqueViolation(users, normalize_email(v.email), 0)
    THEN /\ last' = Resp("signup", 500, "fault", NoCred, 0, FALSE, {})
         /\ UNCHANGED <<users, outstanding, access>>
    ELSE /\ users' = Append(users,
              create_user(v.email, v.password, v.full_name, "user", FALSE))
         /\ TokensFor(Len(users'))
         /\ last' = Resp("signup", 201, "ok", NoCred, Len(users'), TRUE,
                         {UserSerializer(users', Len(users'))})

\* SignupView.post, check and write in one step
Signup(d) ==
  /\ Len(users) < MaxUsers
  /\ IF SignupErrors(users, d) # {}
       THEN /\ last' = Resp("signup", 400, "validation", NoCred, 0, FALSE,
                            {[errors |-> SignupErrors(users, d)]})
            /\ UNCHANGED <<users, outstanding, access>>
       ELSE SignupWrite(SignupValidated(d))
  /\ UNCHANGED <<blacklist, inflight>>

\* SignupView.post up to serializer.is_valid(): the payload has passed the
\* existence check and the INSERT has not happened yet
SignupBegin(d) ==
  /\ Cardinality(inflight) < MaxInFlight
  /\ SignupErrors(users, d) = {}
  /\ inflight' = inflight \cup {[op |-> "signup", v |-> SignupValidated(d)]}
  /\ UNCHANGED <<users, outstanding, blacklist, access, last>>

\* SignupView.post from serializer.save() on, for a request in flight
SignupCommit(r) ==
  /\ r.op = "signup"
  /\ Len(users) < MaxUsers
  /\ SignupWrite(r.v)
  /\ inflight' = inflight \ {r}
  /\ UNCHANGED blacklist

\* Signup payloads that differ in the candidate password and its confirmation
CandidateSignups ==
  [email : {EmailLower, EmailPadded}, full_name : {NameGood},
   password : PwCandidates, confirm_password : {PwGood, PwShortPadded}]

SignupPayloads ==
  [email : EmailInputs \cup {EmailPadded}, full_name : NameInputs,
   password : {PwGood, PwWeak, PwPadded}, confirm_password : {PwGood, PwOther}]

(* ------------------------------ login ---------------------------------- *)

\* serializers.EmailField: one "@", something before it and a dotted domain
EmailField(s) ==
  /\ Cardinality({ i \in DOMAIN s : s[i] = "@" }) = 1
  /\ \E a \in DOMAIN s : \E d \in DOMAIN s :
       s[a] = "@" /\ s[d] = "." /\ 1 < a /\ a + 1 < d /\ d < Len(s)

\* django.contrib.auth.authenticate (ModelBackend): the row whose email is
\* exactly the submitted one and whose hash the password verifies
authenticate(tbl, email, password) ==
  { i \in ByEmail(tbl, email) : check_password(password, tbl[i].password) }

\* User.update_last_login: save(update_fields=['last_login'])
update_last_login(tbl, u) ==
  [tbl EXCEPT ![u].last_login = tbl[u].last_login + 1]

\* UserLoginSerializer.validate without the status check
LoginRefusal_noStatus(tbl, email, password) ==
  IF ~EmailField(email) THEN "invalid_email"
  ELSE IF authenticate(tbl, Lower(email), password) = {} THEN "invalid_credentials"
  ELSE "none"

\* UserLoginSerializer.validate_email / validate: why the credentials are
\* refused ("none": they are accepted).  The status is looked at only once
\* authenticate has found the row and verified the password.
LoginRefusal(tbl, email, password) ==
  IF ~EmailField(email) THEN "invalid_email"
  ELSE IF authenticate(tbl, Lower(email), password) = {} THEN "invalid_credentials"
  ELSE IF \E u \in authenticate(tbl, Lower(email), password) :
            tbl[u].status = "inactive"
    THEN "account_deactivated"
  ELSE "none"

\* The account that submitted credentials name: the row whose email is the
\* lower-cased one (0: none)
Named(tbl, email) ==
  IF ByEmail(tbl, Lower(email)) = {} THEN 0
  ELSE CHOOSE i \in ByEmail(tbl, Lower(email)) : TRUE

\* LoginView.post
Login(email, password) ==
  /\ LET why == LoginRefusal(users, CharField(email), CharField(password))
         u == Named(users, CharField(email))
     IN  IF why # "none"
           THEN /\ last' = Resp("login", 400, why, NoCred, u, FALSE, {})
                /\ UNCHANGED <<users, outstanding, access>>
           ELSE /\ users' = update_last_login(users, u)
                /\ TokensFor(u)
                /\ last' = Resp("login", 200, "ok", NoCred, u, TRUE,
                                {UserSerializer(users', u)})
  /\ UNCHANGED <<blacklist, inflight>>

LoginEmails == EmailInputs \cup {admin_email}

LoginPasswords == {PwGood, PwOther, admin_password}

(* ------------------------------ access policy -------------------------- *)

\* rest_framework.permissions.IsAuthenticated behind JWT authentication: the
\* bearer token was accepted and resolves to a row (request.user is loaded
\* from the table on every request)
IsAuthenticated(tbl, cred) == cred.valid /\ cred.owner \in DOMAIN tbl

\* IsAdmin as it would be if it stopped at authentication
IsAdmin_anyAccount(tbl, cred) == cred.valid /\ cred.owner \in DOMAIN tbl

\* permissions.IsAdmin.has_permission
IsAdmin(tbl, cred) ==
  IsAuthenticated(tbl, cred) /\ tbl[cred.owner].role = "admin"

\* IsActiveUser as it would be if the status were taken from the token, which
\* was issued to an active account, instead of from the row
IsActiveUser_cached(tbl, cred) == cred.valid /\ cred.owner \in DOMAIN tbl

\* permissions.IsActiveUser.has_permission
IsActiveUser(tbl, cred) ==
  IsAuthenticated(tbl, cred) /\ tbl[cred.owner].status = "active"

\* APIView.initial for permission_classes = [IsAuthenticated, <gate>], mapped
\* by custom_exception_handler: 401 when authentication fails, 403 when the
\* second class refuses, 0 when the handler runs
Permit(tbl, cred, gate) ==
  IF ~IsAuthenticated(tbl, cred) THEN 401
  ELSE IF gate = "active" /\ ~IsActiveUser(tbl, cred) THEN 403
  ELSE IF gate = "admin" /\ ~IsAdmin(tbl, cred) THEN 403
  ELSE 0

\* The response to a request that the access policy stops
Denied(op, code, cred, target) ==
  /\ last' = Resp(op, code, IF code = 401 THEN "unauthenticated" ELSE "forbidden",
                  cred, target, FALSE, {})
  /\ UNCHANGED <<users, outstanding, blacklist, access, inflight>>

(* ------------------------------ tokens --------------------------------- *)

\* What a request body may carry in its refresh field
RefreshInputs ==
  { [jti |-> 0, form |-> f] : f \in {"missing", "empty", "malformed"} } \cup
  { [jti |-> j, form |-> f] : j \in DOMAIN outstanding, f \in {"valid", "expired"} }

\* RefreshToken(raw) as it would be if the expiry were not verified
RefreshToken_noExpiry(rt, bl) == rt.form \in {"valid", "expired"} /\ rt.jti \notin bl

\* RefreshToken(raw): raises TokenError unless the token decodes, has not
\* expired and is not on the blacklist
RefreshToken(rt, bl) == rt.form = "valid" /\ rt.jti \notin bl

\* token.blacklist() as it would be if it recorded nothing
token_blacklist_forgets(bl, rt) == bl

\* token.blacklist(): the jti joins the blacklisted tokens
token_blacklist(bl, rt) == bl \cup {rt.jti}

\* LogoutView.post
Logout(cred, rt) ==
  LET p == Permit(users, cred, "none")
  IN  IF p # 0 THEN Denied("logout", p, cred, 0)
      ELSE /\ IF rt.form \in {"missing", "empty"}
                THEN /\ last' = Resp("logout", 400, "validation", cred, rt.jti, FALSE, {})
                     /\ UNCHANGED blacklist
                ELSE IF ~RefreshToken(rt, blacklist)
                THEN /\ last' = Resp("logout", 400, "token", cred, rt.jti, FALSE, {})
                     /\ UNCHANGED blacklist
                ELSE /\ blacklist' = token_blacklist(blacklist, rt)
                     /\ last' = Resp("logout", 200, "ok", cred, rt.jti, FALSE, {})
           /\ UNCHANGED <<users, outstanding, access, inflight>>

\* TokenRefreshAPIView.post as it would be with rotation: the token presented
\* is blacklisted once it has been used
TokenRefresh_rotating(rt) ==
  /\ IF rt.form \in {"missing", "empty"}
       THEN /\ last' = Resp("refresh", 400, "validation", NoCred, rt.jti, FALSE, {})
            /\ UNCHANGED <<access, blacklist>>
       ELSE IF ~RefreshToken(rt, blacklist)
       THEN /\ last' = Resp("refresh", 401, "token", NoCred, rt.jti, FALSE, {})
            /\ UNCHANGED <<access, blacklist>>
       ELSE /\ access' = access \cup {[owner |-> outstanding[rt.jti]]}
            /\ blacklist' = blacklist \cup {rt.jti}
            /\ last' = Resp("refresh", 200, "ok", NoCred, rt.jti, TRUE, {})
  /\ UNCHANGED <<users, outstanding, inflight>>

\* TokenRefreshAPIView.post (TokenRefreshView without rotation): a refresh
\* field that is missing or blank is a validation error, a token that does
\* not verify is InvalidToken (401), a good one yields a new access token
TokenRefresh(rt) ==
  /\ IF rt.form \in {"missing", "empty"}
       THEN /\ last' = Resp("refresh", 400, "validation", NoCred, rt.jti, FALSE, {})
            /\ UNCHANGED access
       ELSE IF ~RefreshToken(rt, blacklist)
       THEN /\ last' = Resp("refresh", 401, "token", NoCred, rt.jti, FALSE, {})
            /\ UNCHANGED access
       ELSE /\ access' = access \cup {[owner |-> outstanding[rt.jti]]}
            /\ last' = Resp("refresh", 200, "ok", NoCred, rt.jti, TRUE, {})
  /\ UNCHANGED <<users, outstanding, blacklist, inflight>>

(* ------------------------------ self service --------------------------- *)

\* CurrentUserView.get and UserProfileView.get
ReadSelf(op, cred) ==
  LET p == Permit(users, cred, "active")
  IN  IF p # 0 THEN Denied(op, p, cred, 0)
      ELSE /\ last' = Resp(op, 200, "ok", cred, cred.owner, FALSE,
                           {UserSerializer(users, cred.owner)})
           /\ UNCHANGED <<users, outstanding, blacklist, access, inflight>>

\* The fields of a profile payload that UserUpdateSerializer rejects for
\* the caller u: the model field's UniqueValidator and validate_email both
\* leave the caller's own row out of the lookup
ProfileErrors(tbl, u, d) ==
  (IF /\ d.email # Absent
      /\ \/ ByEmail(tbl, CharField(d.email)) \ {u} # {}
         \/ ~email_regex(CharField(d.email))
         \/ ByEmail(tbl, Lower(CharField(d.email))) \ {u} # {}
     THEN {"email"} ELSE {})
  \cup
  (IF d.full_name # Absent /\ Len(Strip(CharField(d.full_name))) < 2
     THEN {"full_name"} ELSE {})

\* ModelSerializer.update as it would be if role were among Meta.fields and
\* the payload asked for admin
ProfileApply_roleWritable(row, d) ==
  [row EXCEPT
     !.email = IF d.email = Absent THEN @ ELSE Lower(CharField(d.email)),
     !.full_name = IF d.full_name = Absent THEN @ ELSE Strip(CharField(d.full_name)),
     !.role = "admin"]

\* ModelSerializer.update with partial=True: the loaded copy with the
\* validated fields set
ProfileApply(row, d) ==
  [row EXCEPT
     !.email = IF d.email = Absent THEN @ ELSE Lower(CharField(d.email)),
     !.full_name = IF d.full_name = Absent THEN @ ELSE Strip(CharField(d.full_name))]

\* instance.save() of the caller's copy `row`, answered by op: the unique
\* index refuses an email that another row holds by now
SelfSave(op, cred, row) ==
  LET u == cred.owner
  IN  IF UniqueViolation(users, row.email, u)
        THEN /\ last' = Resp(op, 500, "fault", cred, u, FALSE, {})
             /\ UNCHANGED users
        ELSE /\ users[u].updated_at < MaxStamp
             /\ users' = SaveRow(users, u, row)
             /\ last' = Resp(op, 200, "ok", cred, u, FALSE,
                             IF op = "profile_put"
                               THEN {UserSerializer(users', u)} ELSE {})

\* UserProfileView.put, load, check and save in one step
ProfilePut(cred, d) ==
  LET p == Permit(users, cred, "active")
  IN  IF p # 0 THEN Denied("profile_put", p, cred, 0)
      ELSE /\ IF ProfileErrors(users, cred.owner, d) # {}
                THEN /\ last' = Resp("profile_put", 400, "validation", cred,
                                     cred.owner, FALSE,
                                     {[errors |-> ProfileErrors(users, cred.owner, d)]})
                     /\ UNCHANGED users
                ELSE SelfSave("profile_put", cred, ProfileApply(users[cred.owner], d))
           /\ UNCHANGED <<outstanding, blacklist, access, inflight>>

ProfilePayloads ==
  [email : {Absent, EmailUpperLocal, EmailUpperDomain, EmailBad},
   full_name : {Absent, NameOther, NameShort}]

\* ChangePasswordSerializer without validate_current_password
PasswordErrors_anyCurrent(row, d) ==
  LET current == CharField(d.current_password)
      new == CharField(d.new_password)
      fe == IF ~validate_password(new) THEN {"new_password"} ELSE {}
  IN  IF fe # {} THEN fe
      ELSE IF new # CharField(d.confirm_new_password)
        THEN {"confirm_new_password"}
      ELSE IF current = new THEN {"new_password"}
      ELSE {}

\* The fields of a change-password payload that ChangePasswordSerializer
\* rejects for the caller's copy `row`
PasswordErrors(row, d) ==
  LET current == CharField(d.current_password)
      new == CharField(d.new_password)
      fe == (IF ~check_password(current, row.password)
               THEN {"current_password"} ELSE {})
            \cup (IF ~validate_password(new) THEN {"new_password"} ELSE {})
  IN  IF fe # {} THEN fe
      ELSE IF new # CharField(d.confirm_new_password)
        THEN {"confirm_new_password"}
      ELSE IF current = new THEN {"new_password"}
      ELSE {}

\* ChangePasswordView.post, load, check and save in one step
ChangePassword(cred, d) ==
  LET p == Permit(users, cred, "active")
  IN  IF p # 0 THEN Denied("change_password", p, cred, 0)
      ELSE /\ IF PasswordErrors(users[cred.owner], d) # {}
                THEN /\ last' = Resp("change_password", 400, "validation", cred,
                                     cred.owner, FALSE,
                                     {[errors |-> PasswordErrors(users[cred.owner], d)]})
                     /\ UNCHANGED users
                ELSE SelfSave("change_password", cred,
                       [users[cred.owner] EXCEPT
                          !.password = make_password(CharField(d.new_password))])
           /\ UNCHANGED <<outstanding, blacklist, access, inflight>>

\* Change-password payloads that differ in the current password, the
\* candidate and its confirmation
CandidateChanges ==
  [current_password : {PwGood, PwOther, PwPadded}, new_password : PwCandidates,
   confirm_new_password : {PwOther, PwShortPadded}]

PasswordPayloads ==
  [current_password : {PwGood, PwOther}, new_password : {PwGood, PwOther, PwWeak},
   confirm_new_password : {PwGood, PwOther}]

\* UserProfileView.put and ChangePasswordView.post up to is_valid(): the
\* caller's row has been loaded, the policy and the payload have been
\* checked, and the copy to save is held by the request
SelfBegin(op, cred, d) ==
  /\ Cardinality(inflight) < MaxInFlight
  /\ Permit(users, cred, "active") = 0
  /\ IF op = "profile_put"
       THEN /\ d \in ProfilePayloads
            /\ ProfileErrors(users, cred.owner, d) = {}
            /\ inflight' = inflight \cup
                 {[op |-> op, cred |-> cred, row |-> ProfileApply(users[cred.owner], d)]}
       ELSE /\ d \in PasswordPayloads
            /\ PasswordErrors(users[cred.owner], d) = {}
            /\ inflight' = inflight \cup
                 {[op |-> op, cred |-> cred,
                   row |-> [users[cred.owner] EXCEPT
                              !.password = make_password(CharField(d.new_password))]]}
  /\ UNCHANGED <<users, outstanding, blacklist, access, last>>

\* The save of a profile or password request in flight
SelfCommit(r) ==
  /\ r.op \in {"profile_put", "change_password"}
  /\ SelfSave(r.op, r.cred, r.row)
  /\ inflight' = inflight \ {r}
  /\ UNCHANGED <<outstanding, blacklist, access>>

(* ------------------------------ administration ------------------------ *)

\* What the path of an admin request may name: ids of rows and ids of none
TargetIds == 1..MaxUsers

\* AdminUserListView.get_queryset: the ids the filters keep.  The search
\* branch evaluates models.Q, and views.py imports no name `models`.
ListParams ==
  [status : {"(none)", "inactive", "deleted"}, role : {"(none)", "admin"},
   search : {Absent, <<"a">>}]

get_queryset(tbl, q) ==
  { i \in DOMAIN tbl :
      /\ q.status \in {"active", "inactive"} => tbl[i].status = q.status
      /\ q.role \in {"admin", "user"} => tbl[i].role = q.role }

\* AdminUserListView.list
AdminList(cred, q) ==
  LET p == Permit(users, cred, "admin")
  IN  IF p # 0 THEN Denied("admin_list", p, cred, 0)
      ELSE /\ IF q.search # Absent /\ q.search # <<>>
                THEN last' = Resp("admin_list", 500, "fault", cred, 0, FALSE, {})
                ELSE last' = Resp("admin_list", 200, "ok", cred, 0, FALSE,
                                  { UserSerializer(users, i) : i \in get_queryset(users, q) })
           /\ UNCHANGED <<users, outstanding, blacklist, access, inflight>>

\* The response of get_object_or_404 when no row has the id
NotFound(op, cred, t) ==
  /\ last' = Resp(op, 404, "not_found", cred, t, FALSE, {})
  /\ UNCHANGED <<users, outstanding, blacklist, access, inflight>>

\* A handler's own refusal: 400 with a message and no errors map
Refused(op, why, cred, t) ==
  /\ last' = Resp(op, 400, why, cred, t, FALSE, {})
  /\ UNCHANGED <<users, outstanding, blacklist, access, inflight>>

\* AdminUserDetailView.get
AdminDetail(cred, t) ==
  LET p == Permit(users, cred, "admin")
  IN  IF p # 0 THEN Denied("admin_detail", p, cred, t)
      ELSE IF t \notin DOMAIN users THEN NotFound("admin_detail", cred, t)
      ELSE /\ last' = Resp("admin_detail", 200, "ok", cred, t, FALSE,
                           {UserSerializer(users, t)})
           /\ UNCHANGED <<users, outstanding, blacklist, access, inflight>>

\* User.activate: save(update_fields=['status', 'updated_at'])
activate(tbl, t) ==
  [tbl EXCEPT ![t].status = "active", ![t].updated_at = @ + 1]

\* User.deactivate with save(update_fields=['status'])
deactivate_noStamp(tbl, t) == [tbl EXCEPT ![t].status = "inactive"]

\* User.deactivate: save(update_fields=['status', 'updated_at'])
deactivate(tbl, t) ==
  [tbl EXCEPT ![t].status = "inactive", ![t].updated_at = @ + 1]

\* AdminActivateUserView.post without the already-active check
ActivateRefusal_none(tbl, cred, t) == "none"

\* AdminActivateUserView.post: why the transition is refused
ActivateRefusal(tbl, cred, t) ==
  IF tbl[t].status = "active" THEN "already_active" ELSE "none"

\* AdminActivateUserView.post
AdminActivate(cred, t) ==
  LET p == Permit(users, cred, "admin")
  IN  IF p # 0 THEN Denied("activate", p, cred, t)
      ELSE IF t \notin DOMAIN users THEN NotFound("activate", cred, t)
      ELSE IF ActivateRefusal(users, cred, t) # "none"
        THEN Refused("activate", ActivateRefusal(users, cred, t), cred, t)
      ELSE /\ users[t].updated_at < MaxStamp
           /\ users' = activate(users, t)
           /\ last' = Resp("activate", 200, "ok", cred, t, FALSE,
                           {UserSerializer(users', t)})
           /\ UNCHANGED <<outstanding, blacklist, access, inflight>>

\* AdminDeactivateUserView.post without the self check
DeactivateRefusal_noSelf(tbl, cred, t) ==
  IF tbl[t].status = "inactive" THEN "already_inactive" ELSE "none"

\* AdminDeactivateUserView.post: why the transition is refused; the self
\* check comes first
DeactivateRefusal(tbl, cred, t) ==
  IF t = cred.owner THEN "cannot_deactivate_self"
  ELSE IF tbl[t].status = "inactive" THEN "already_inactive"
  ELSE "none"

\* AdminDeactivateUserView.post
AdminDeactivate(cred, t) ==
  LET p == Permit(users, cred, "admin")
  IN  IF p # 0 THEN Denied("deactivate", p, cred, t)
      ELSE IF t \notin DOMAIN users THEN NotFound("deactivate", cred, t)
      ELSE IF DeactivateRefusal(users, cred, t) # "none"
        THEN Refused("deactivate", DeactivateRefusal(users, cred, t), cred, t)
      ELSE /\ users[t].updated_at < MaxStamp
           /\ users' = deactivate(users, t)
           /\ last' = Resp("deactivate", 200, "ok", cred, t, FALSE,
                           {UserSerializer(users', t)})
           /\ UNCHANGED <<outstanding, blacklist, access, inflight>>

(* ------------------------------ specification -------------------------- *)

\* The response reaches the client; the server takes the next request
Deliver ==
  /\ last # Idle
  /\ last' = Idle
  /\ UNCHANGED <<users, outstanding, blacklist, access, inflight>>

\* manage.py create_admin, run once the previous response is delivered
RunCreateAdmin == last = Idle /\ CreateAdmin

\* Accounts created through the manager (shell, fixtures): a user whose
\* domain is upper case and a second administrator
RunSeed ==
  /\ last = Idle
  /\ \/ Seed(EmailUpperDomain, PwGood, "user")
     \/ Seed(EmailLower, PwGood, "admin")

\* An account created through the manager with an upper-case local part
RunSeedMixedCase == last = Idle /\ Seed(EmailUpperLocal, PwGood, "user")

\* POST auth/signup/
PostSignup == last = Idle /\ \E d \in SignupPayloads : Signup(d)

\* POST auth/signup/, validation of one request
PostSignupBegin == last = Idle /\ \E d \in SignupPayloads : SignupBegin(d)

\* POST auth/signup/, the INSERT of a request validated earlier
PostSignupCommit == last = Idle /\ \E r \in inflight : SignupCommit(r)

\* POST auth/login/
PostLogin ==
  /\ last = Idle
  /\ \E e \in {admin_email, EmailUpperDomain, EmailLower},
        p \in {PwGood, admin_password} : Login(e, p)

\* POST auth/logout/
PostLogout == last = Idle /\ \E c \in Creds, rt \in RefreshInputs : Logout(c, rt)

\* POST auth/token/refresh/
PostTokenRefresh == last = Idle /\ \E rt \in RefreshInputs : TokenRefresh(rt)

\* GET auth/me/
GetMe == last = Idle /\ \E c \in Creds : ReadSelf("me", c)

\* GET users/profile/
GetProfile == last = Idle /\ \E c \in Creds : ReadSelf("profile_get", c)

\* PUT users/profile/
PutProfile ==
  /\ last = Idle
  /\ \E c \in Creds : ProfilePut(c, [email |-> Absent, full_name |-> NameOther])

\* PUT users/profile/ with a new email
PutProfileEmail ==
  /\ last = Idle
  /\ \E c \in Creds, e \in {EmailLower, EmailUpperLocal} :
       ProfilePut(c, [email |-> e, full_name |-> Absent])

\* POST users/change-password/
PostChangePassword ==
  /\ last = Idle
  /\ \E c \in Creds :
       ChangePassword(c, [current_password |-> PwGood, new_password |-> PwOther,
                          confirm_new_password |-> PwOther])

\* GET admin/users/
GetAdminUsers ==
  /\ last = Idle
  /\ \E c \in Creds :
       AdminList(c, [status |-> "(none)", role |-> "(none)", search |-> Absent])

\* GET admin/users/<user_id>/
GetAdminUser == last = Idle /\ \E c \in Creds, t \in TargetIds : AdminDetail(c, t)

\* POST admin/users/<user_id>/activate/
PostActivate == last = Idle /\ \E c \in Creds, t \in TargetIds : AdminActivate(c, t)

\* POST admin/users/<user_id>/deactivate/
PostDeactivate ==
  last = Idle /\ \E c \in Creds, t \in TargetIds : AdminDeactivate(c, t)

\* The account life cycle: seeded accounts log in and call the admin
\* endpoints.  Every access token is issued by a login, that is, while the
\* account was active.
Next ==
  \/ Deliver
  \/ RunCreateAdmin
  \/ RunSeed
  \/ PostLogin
  \/ GetAdminUsers
  \/ GetAdminUser
  \/ PostActivate
  \/ PostDeactivate

Spec == Init /\ [][Next]_vars

\* Self service: a user and an administrator log in, read and change their
\* own data, and the administrator deactivates and reactivates in between
SelfNext ==
  \/ Deliver
  \/ RunSeed
  \/ PostLogin
  \/ GetMe
  \/ GetProfile
  \/ PutProfile
  \/ PostChangePassword
  \/ PostActivate
  \/ PostDeactivate

SelfSpec == Init /\ [][SelfNext]_vars

\* Registration: accounts arrive through the manager and through signup,
\* in one step or with validation and INSERT of two requests interleaved,
\* and change their email afterwards
SignupNext ==
  \/ Deliver
  \/ RunSeedMixedCase
  \/ PostSignup
  \/ PostSignupBegin
  \/ PostSignupCommit
  \/ PutProfileEmail

SignupSpec == Init /\ [][SignupNext]_vars

\* POST auth/signup/ with the candidate passwords
PostSignupCandidate == last = Idle /\ \E d \in CandidateSignups : Signup(d)

\* POST users/change-password/ with the candidate passwords
PostChangePasswordCandidate ==
  last = Idle /\ \E c \in Creds, d \in CandidateChanges : ChangePassword(c, d)

\* Passwords: accounts sign up and change their password with the tokens of
\* the signup, with candidates that pass and that break the strength rules
PasswordNext ==
  \/ Deliver
  \/ PostSignupCandidate
  \/ PostChangePasswordCandidate

PasswordSpec == Init /\ [][PasswordNext]_vars

\* GET admin/users/ with the query params tried
GetAdminUsersFiltered ==
  last = Idle /\ \E c \in Creds, q \in ListParams : AdminList(c, q)

\* Listing: seeded accounts log in, list the accounts with filters and
\* deactivate them in between
ListNext ==
  \/ Deliver
  \/ RunCreateAdmin
  \/ RunSeed
  \/ PostLogin
  \/ PostDeactivate
  \/ GetAdminUsersFiltered

ListSpec == Init /\ [][ListNext]_vars

\* POST auth/signup/ of one new user
PostSignupUser ==
  /\ last = Idle
  /\ Signup([email |-> EmailUpperDomain, full_name |-> NameGood,
             password |-> PwGood, confirm_password |-> PwGood])

\* Every operation of the API on an account that signed up and on the
\* default admin
ApiNext ==
  \/ Deliver
  \/ RunCreateAdmin
  \/ PostSignupUser
  \/ PostLogin
  \/ PostLogout
  \/ PostTokenRefresh
  \/ PutProfile
  \/ PostChangePassword
  \/ PostActivate
  \/ PostDeactivate

ApiSpec == Init /\ [][ApiNext]_vars

\* Sessions: accounts log in, refresh and log out
TokenNext ==
  \/ Deliver
  \/ RunCreateAdmin
  \/ RunSeed
  \/ PostLogin
  \/ PostLogout
  \/ PostTokenRefresh

TokenSpec == Init /\ [][TokenNext]_vars

\* PUT users/profile/, up to is_valid() of one request
PutProfileBegin ==
  /\ last = Idle
  /\ \E c \in Creds :
       SelfBegin("profile_put", c, [email |-> Absent, full_name |-> NameOther])

\* POST users/change-password/, up to is_valid() of one request
PostChangePasswordBegin ==
  /\ last = Idle
  /\ \E c \in Creds :
       SelfBegin("change_password", c,
                 [current_password |-> PwGood, new_password |-> PwOther,
                  confirm_new_password |-> PwOther])

\* PUT users/profile/ and POST users/change-password/, the save() of a
\* request validated earlier
SelfSaveCommit == last = Idle /\ \E r \in inflight : SelfCommit(r)

\* Self service interleaved with administration: a user's profile update or
\* password change has loaded its row when an administrator's activate or
\* deactivate is served, and saves afterwards
RaceNext ==
  \/ Deliver
  \/ RunSeed
  \/ PostLogin
  \/ PutProfileBegin
  \/ PostChangePasswordBegin
  \/ SelfSaveCommit
  \/ PostActivate
  \/ PostDeactivate

RaceSpec == Init /\ [][RaceNext]_vars

\* The emails and passwords that accounts are created with
CreatedEmails == {admin_email, EmailUpperDomain, EmailLower, EmailUpperLocal}

CreatedPasswords == {PwGood, admin_password}

\* POST auth/login/ with an email and a password that an account was
\* created with
PostLoginCreated ==
  last = Idle /\ \E e \in CreatedEmails, p \in CreatedPasswords : Login(e, p)

\* Login of the accounts of every creation path: the default admin, accounts
\* created through the manager, and a signup; an administrator deactivates in
\* between
LoginNext ==
  \/ Deliver
  \/ RunCreateAdmin
  \/ RunSeed
  \/ RunSeedMixedCase
  \/ PostSignupUser
  \/ PostLoginCreated
  \/ PostDeactivate

LoginSpec == Init /\ [][LoginNext]_vars

(* ------------------------------ properties ----------------------------- *)

\* The endpoints gated by IsActiveUser
GatedOps == {"me", "profile_get", "profile_put", "change_password"}

\* The endpoints under /admin/
AdminOps == {"admin_list", "admin_detail", "activate", "deactivate"}

\* The request answered by r was authenticated as an admin of tbl
ByAdmin(r, tbl) ==
  r.authed /\ r.caller \in DOMAIN tbl /\ tbl[r.caller].role = "admin"

\* The step leaves the status of every account as it was
StatusKept ==
  /\ DOMAIN users' = DOMAIN users
  /\ \A u \in DOMAIN users : users'[u].status = users[u].status

\* The step changes the status of t to st and stamps updated_at, and leaves
\* every other column of t and every other row as it was
OnlyStatus(t, st) ==
  /\ DOMAIN users' = DOMAIN users
  /\ users'[t].status = st
  /\ users'[t].updated_at > users[t].updated_at
  /\ users'[t] = [users[t] EXCEPT !.status = st, !.updated_at = users'[t].updated_at]
  /\ \A o \in DOMAIN users \ {t} : users'[o] = users[o]
  /\ UNCHANGED <<outstanding, blacklist, access>>

\* C1: a deactivate request that an admin makes on its own id is refused
\* with 400 by the self check, whatever the admin's status, and changes no
\* row; no account goes from active to inactive in a request made with its
\* own credentials.
C1_SelfDeactivateRefused ==
  [][ /\ (last'.op = "deactivate" /\ ByAdmin(last', users)
            /\ last'.target = last'.caller)
         => /\ last'.code = 400
            /\ last'.kind = "cannot_deactivate_self"
            /\ users'[last'.caller].status = users[last'.caller].status
            /\ users'[last'.caller].updated_at = users[last'.caller].updated_at
      /\ \A u \in DOMAIN users :
           (users[u].status = "active" /\ users'[u].status = "inactive")
             => last'.caller # u ]_vars

\* C1 witness: an admin that is already inactive is refused by the self check
C1_Witness ==
  /\ last.op = "deactivate"
  /\ last.kind = "cannot_deactivate_self"
  /\ last.code = 400
  /\ users[last.caller].status = "inactive"

\* C2: while an account is inactive, every request to a gated endpoint that
\* authenticates with an access token of that account is denied with 403 and
\* changes nothing.
C2_InactiveDenied ==
  [][ (last'.op \in GatedOps /\ last'.authed
         /\ users[last'.caller].status = "inactive")
      => /\ last'.code = 403
         /\ UNCHANGED <<users, outstanding, blacklist, access>> ]_vars

\* C2 witness: a password change is denied to a deactivated account that
\* presents the token it got at login
C2_Witness ==
  /\ last.op = "change_password"
  /\ last.authed
  /\ last.code = 403
  /\ users[last.caller].status = "inactive"
  /\ users[last.caller].last_login > 0

\* C3: a login that names an inactive account fails with 400 whether the
\* password is right or wrong, issues no token and leaves last_login alone.
C3_InactiveLoginFails ==
  [][ (last'.op = "login" /\ last'.target \in DOMAIN users
         /\ users[last'.target].status = "inactive")
      => /\ last'.code = 400
         /\ ~last'.issued
         /\ users'[last'.target].last_login = users[last'.target].last_login
         /\ UNCHANGED <<outstanding, access>> ]_vars

\* C3 witness: the right password of an inactive account is refused
C3_Witness ==
  /\ last.op = "login"
  /\ last.kind = "account_deactivated"
  /\ last.code = 400
  /\ users[last.target].status = "inactive"

\* C4 as stated: a request of a non-admin account to an admin endpoint gets
\* 403 whether or not its token is accepted, and changes no status.
C4_Original ==
  [][ (last'.op \in AdminOps /\ last'.caller \in DOMAIN users
         /\ users[last'.caller].role = "user")
      => (last'.code = 403 /\ StatusKept) ]_vars

\* C4 amended: a request of a non-admin account to an admin endpoint gets
\* 403 when its access token is accepted and 401 when it is not (expired),
\* also when the target id does not exist, and changes no status.
C4_NonAdminDenied ==
  [][ (last'.op \in AdminOps /\ last'.caller \in DOMAIN users
         /\ users[last'.caller].role = "user")
      => /\ last'.code = IF last'.authed THEN 403 ELSE 401
         /\ StatusKept ]_vars

\* C4 witness: a non-admin is denied the deactivation of an id that no row has
C4_Witness ==
  /\ last.op = "deactivate"
  /\ last.authed
  /\ users[last.caller].role = "user"
  /\ last.target \notin DOMAIN users
  /\ last.code = 403

\* C5 as stated: in every reachable state no two accounts have emails that
\* are equal ignoring case, because signup refuses an email that some row
\* already holds in another case, whichever path created that row.
C5_NoCaseInsensitiveDuplicates ==
  \A i, j \in DOMAIN users :
    i # j => Lower(users[i].email) # Lower(users[j].email)

\* C6 as stated: when the INSERT of a signup that passed the existence check
\* earlier finds the email taken by now, the request is answered with a 400
\* validation error and one account holds that email afterwards.
C6_LostRaceIsValidationError ==
  [][ \A r \in inflight \ inflight' :
        (r.op = "signup" /\ ByEmail(users, r.v.email) # {})
          => /\ last'.code = 400
             /\ last'.kind = "validation"
             /\ Cardinality(ByEmail(users', r.v.email)) = 1 ]_vars

\* C7: an admin's activate of an active account and an admin's deactivate of
\* another account that is inactive return 400 and leave the target's status
\* and updated_at as they were.
C7_NoOpTransitionsRefused ==
  [][ (/\ ByAdmin(last', users)
       /\ last'.target \in DOMAIN users
       /\ \/ last'.op = "activate" /\ users[last'.target].status = "active"
          \/ /\ last'.op = "deactivate"
             /\ last'.target # last'.caller
             /\ users[last'.target].status = "inactive")
      => /\ last'.code = 400
         /\ users'[last'.target].status = users[last'.target].status
         /\ users'[last'.target].updated_at = users[last'.target].updated_at ]_vars

\* C7 witness: an account that was deactivated and activated again is
\* activated once more
C7_Witness ==
  /\ last.op = "activate"
  /\ last.kind = "already_active"
  /\ last.code = 400
  /\ users[last.target].updated_at > 2

\* C8: an admin's activate of an inactive account and an admin's deactivate
\* of another, active account succeed; a successful activate or deactivate
\* writes the status and updated_at of the target and nothing else.
C8_TransitionFrame ==
  [][ /\ (/\ ByAdmin(last', users)
          /\ last'.target \in DOMAIN users
          /\ \/ last'.op = "activate" /\ users[last'.target].status = "inactive"
             \/ /\ last'.op = "deactivate"
                /\ last'.target # last'.caller
                /\ users[last'.target].status = "active")
         => last'.code = 200
      /\ (last'.op = "activate" /\ last'.code = 200)
         => OnlyStatus(last'.target, "active")
      /\ (last'.op = "deactivate" /\ last'.code = 200)
         => OnlyStatus(last'.target, "inactive") ]_vars

\* C8 witness: a deactivation has succeeded on an account that had logged in
C8_Witness ==
  /\ last.op = "deactivate"
  /\ last.code = 200
  /\ users[last.target].status = "inactive"
  /\ users[last.target].last_login > 0

C10_RevocationPermanent ==
  [][ /\ (last'.op = "logout" /\ last'.code = 200) => last'.target \in blacklist'
      /\ blacklist \subseteq blacklist'
      /\ (/\ last'.op \in {"refresh", "logout"}
          /\ last'.op = "logout" => last'.authed
          /\ last'.target \in blacklist)
         => /\ last'.code \in {400, 401}
            /\ last'.kind = "token"
            /\ ~last'.issued
            /\ access' = access ]_vars

\* C10 witness: a refresh with a blacklisted token is refused while the same
\* account holds another refresh token from another login
C10_Witness ==
  /\ last.op = "refresh"
  /\ last.kind = "token"
  /\ last.target \in blacklist
  /\ \E j \in DOMAIN outstanding :
       j # last.target /\ outstanding[j] = outstanding[last.target]

\* C11: a refresh with a valid refresh token that is not blacklisted returns
\* 200 with an access token of the token's owner and leaves the token valid
\* for the next refresh: nothing joins the blacklist, no refresh token is
\* issued or withdrawn and no account changes.
C11_RefreshDoesNotRotate ==
  [][ \A rt \in RefreshInputs :
        (rt.form = "valid" /\ rt.jti \notin blacklist /\ TokenRefresh(rt))
          => /\ last'.code = 200
             /\ last'.issued
             /\ [owner |-> outstanding[rt.jti]] \in access'
             /\ blacklist' = blacklist
             /\ outstanding' = outstanding
             /\ users' = users
             /\ RefreshToken(rt, blacklist') ]_vars

\* C11 witness: a refresh has succeeded with a token that is still off the
\* blacklist while another token has been revoked
C11_Witness ==
  /\ last.op = "refresh"
  /\ last.code = 200
  /\ last.target \in DOMAIN outstanding
  /\ last.target \notin blacklist
  /\ blacklist # {}

\* The account that a signup step has appended to the table
Created == users'[Len(users')]

\* A signup step of a valid payload answers 201 with tokens and appends one
\* active account of role user; no body carries a password or a hash
SignupCreates(d) ==
  /\ last'.code = 201
  /\ last'.issued
  /\ Len(users') = Len(users) + 1
  /\ Len(outstanding') = Len(outstanding) + 1
  /\ [owner |-> Len(users')] \in access'
  /\ Created.role = "user"
  /\ Created.status = "active"
  /\ \A b \in last'.data :
       /\ "password" \notin DOMAIN b
       /\ b.email = Created.email

\* C12 as stated: the account created by a valid signup payload stores the
\* lower-cased email as sent and a hash that the password as sent verifies
\* against.
C12_Original ==
  [][ \A d \in SignupPayloads :
        (SignupErrors(users, d) = {} /\ Signup(d))
          => /\ SignupCreates(d)
             /\ Created.email = Lower(d.email)
             /\ check_password(d.password, Created.password) ]_vars

\* C12 amended: the account created by a valid signup payload stores the
\* lower-cased email and a hash of the password, each as sent with the blanks
\* around it trimmed; the response is 201 with tokens, the account is an
\* active user, and no body carries the password or its hash.
C12_SignupCreatesAccount ==
  [][ \A d \in SignupPayloads :
        (SignupErrors(users, d) = {} /\ Signup(d))
          => /\ SignupCreates(d)
             /\ Created.email = Lower(Strip(d.email))
             /\ check_password(Strip(d.password), Created.password) ]_vars

\* C12 witness: an account was created from an address sent in upper case
C12_Witness ==
  /\ last.op = "signup"
  /\ last.code = 201
  /\ users[last.target].email = Lower(EmailUpperLocal)
  /\ users[last.target].role = "user"

\* C13 as stated: the email that create_user or create_superuser stores is
\* the lower-cased input, also when the local part of the input has
\* upper-case letters.
C13_SeedEmailLowerCased ==
  [][ \A e \in {EmailLower, EmailUpperLocal, EmailUpperDomain}, r \in {"user", "admin"} :
        (Seed(e, PwGood, r) /\ Len(users') = Len(users) + 1)
          => Created.email = Lower(e) ]_vars

\* The strength rules that a password breaks
RuleFailures(p) ==
  (IF Len(p) < 8 THEN {"length"} ELSE {})
  \cup (IF \A i \in DOMAIN p : p[i] \notin UpperSet THEN {"upper"} ELSE {})
  \cup (IF \A i \in DOMAIN p : p[i] \notin LowerSet THEN {"lower"} ELSE {})
  \cup (IF \A i \in DOMAIN p : p[i] \notin Digits THEN {"digit"} ELSE {})
  \cup (IF \A i \in DOMAIN p : p[i] \notin Symbols THEN {"symbol"} ELSE {})

\* The fields that the validation error of the response names
RefusedFields == UNION { b.errors : b \in { x \in last'.data : "errors" \in DOMAIN x } }

\* C14 as stated: in signup and in change-password a candidate password that
\* breaks a strength rule is refused; one that breaks none and passes the
\* generic check is refused only when it differs from its confirmation; a
\* refused signup creates no account.
C14_Original ==
  [][ /\ \A d \in CandidateSignups :
           (last'.op = "signup" /\ Signup(d))
             => /\ RuleFailures(d.password) # {}
                     => (last'.code = 400 /\ "password" \in RefusedFields)
                /\ (/\ RuleFailures(d.password) = {}
                    /\ django_validate_password(d.password)
                    /\ RefusedFields \cap {"password", "confirm_password"} # {})
                   => d.password # d.confirm_password
                /\ last'.code = 400 => UNCHANGED <<users, outstanding, access>>
      /\ \A c \in Creds, d \in CandidateChanges :
           (/\ last'.op = "change_password"
            /\ last'.caller = c.owner
            /\ Permit(users, c, "active") = 0
            /\ ChangePassword(c, d))
             => /\ RuleFailures(d.new_password) # {}
                     => (last'.code = 400 /\ "new_password" \in RefusedFields)
                /\ (/\ RuleFailures(d.new_password) = {}
                    /\ django_validate_password(d.new_password)
                    /\ RefusedFields \cap {"new_password", "confirm_new_password"} # {})
                   => d.new_password # d.confirm_new_password ]_vars

\* C14 amended: the candidate is the password with the blanks around it
\* trimmed; one that breaks a strength rule is refused; one that breaks none
\* and passes the generic check is refused only when it differs from its
\* trimmed confirmation or, in change-password, when it equals the current
\* password; a refused signup creates no account.
C14_PasswordStrength ==
  [][ /\ \A d \in CandidateSignups :
           (last'.op = "signup" /\ Signup(d))
             => /\ RuleFailures(Strip(d.password)) # {}
                     => (last'.code = 400 /\ "password" \in RefusedFields)
                /\ (/\ RuleFailures(Strip(d.password)) = {}
                    /\ django_validate_password(Strip(d.password))
                    /\ RefusedFields \cap {"password", "confirm_password"} # {})
                   => Strip(d.password) # Strip(d.confirm_password)
                /\ last'.code = 400 => UNCHANGED <<users, outstanding, access>>
      /\ \A c \in Creds, d \in CandidateChanges :
           (/\ last'.op = "change_password"
            /\ last'.caller = c.owner
            /\ Permit(users, c, "active") = 0
            /\ ChangePassword(c, d))
             => /\ RuleFailures(Strip(d.new_password)) # {}
                     => (last'.code = 400 /\ "new_password" \in RefusedFields)
                /\ (/\ RuleFailures(Strip(d.new_password)) = {}
                    /\ django_validate_password(Strip(d.new_password))
                    /\ RefusedFields \cap {"new_password", "confirm_new_password"} # {})
                   => \/ Strip(d.new_password) # Strip(d.confirm_new_password)
                      \/ Strip(d.new_password) = Strip(d.current_password) ]_vars

\* C14 witness: a signup was refused for its password alone and the table
\* is still empty
C14_Witness ==
  /\ last.op = "signup"
  /\ last.code = 400
  /\ last.data = {[errors |-> {"password"}]}
  /\ users = <<>>

\* C15 as stated: a change-password request replaces the hash only if the
\* current password as sent verifies, the new password equals its
\* confirmation and differs from the current one; otherwise it is answered
\* with a 400 validation error and the hash is kept; after a success the new
\* password verifies and the old one does not.
C15_Original ==
  [][ \A c \in Creds, d \in CandidateChanges :
        (/\ last'.op = "change_password"
         /\ last'.caller = c.owner
         /\ Permit(users, c, "active") = 0
         /\ ChangePassword(c, d))
          => LET u == c.owner
                 ok == /\ check_password(d.current_password, users[u].password)
                       /\ d.new_password = d.confirm_new_password
                       /\ d.new_password # d.current_password
             IN  /\ users'[u].password # users[u].password => ok
                 /\ ~ok => /\ last'.code = 400
                           /\ last'.kind = "validation"
                           /\ users'[u].password = users[u].password
                 /\ last'.code = 200
                      => /\ check_password(d.new_password, users'[u].password)
                         /\ ~check_password(d.current_password, users'[u].password) ]_vars

\* C15 amended: the same with the current password, the new password and
\* the confirmation each taken as sent with the blanks around it trimmed.
C15_ChangePasswordChecks ==
  [][ \A c \in Creds, d \in CandidateChanges :
        (/\ last'.op = "change_password"
         /\ last'.caller = c.owner
         /\ Permit(users, c, "active") = 0
         /\ ChangePassword(c, d))
          => LET u == c.owner
                 current == Strip(d.current_password)
                 new == Strip(d.new_password)
                 ok == /\ check_password(current, users[u].password)
                       /\ new = Strip(d.confirm_new_password)
                       /\ new # current
             IN  /\ users'[u].password # users[u].password => ok
                 /\ ~ok => /\ last'.code = 400
                           /\ last'.kind = "validation"
                           /\ users'[u].password = users[u].password
                 /\ last'.code = 200
                      => /\ check_password(new, users'[u].password)
                         /\ ~check_password(current, users'[u].password) ]_vars

\* C15 witness: a password has been changed, and a later request that gave
\* the old password as the current one was refused
C15_Witness ==
  /\ last.op = "change_password"
  /\ last.code = 400
  /\ last.data = {[errors |-> {"current_password"}]}
  /\ users[last.caller].updated_at > 1
  /\ check_password(PwOther, users[last.caller].password)

\* C16 as stated, an email being owned by the account that holds it in any
\* letter case: a profile update to an email that another account owns is
\* refused for the email and changes nothing; one to the caller's own email
\* in any letter case is not refused for the email; on success the stored
\* email is the lower-cased input and the name, not in the payload, is kept.
C16_ProfileEmailUnique ==
  [][ \A c \in Creds, e \in {EmailLower, EmailUpperLocal} :
        (/\ last'.op = "profile_put"
         /\ last'.caller = c.owner
         /\ Permit(users, c, "active") = 0
         /\ ProfilePut(c, [email |-> e, full_name |-> Absent]))
          => LET u == c.owner
                 taken == \E o \in DOMAIN users \ {u} :
                            Lower(users[o].email) = Lower(e)
             IN  /\ taken => /\ last'.code = 400
                             /\ "email" \in RefusedFields
                             /\ users' = users
                 /\ (~taken /\ Lower(users[u].email) = Lower(e))
                      => "email" \notin RefusedFields
                 /\ last'.code = 200
                      => /\ users'[u].email = Lower(e)
                         /\ users'[u].full_name = users[u].full_name ]_vars

\* s has sub as a substring
Contains(s, sub) ==
  \E k \in 0..(Len(s) - Len(sub)) : SubSeq(s, k + 1, k + Len(sub)) = sub

\* The accounts that the query params of a listing select
Selected(tbl, q) ==
  { i \in DOMAIN tbl :
      /\ q.status \in {"active", "inactive"} => tbl[i].status = q.status
      /\ q.role \in {"admin", "user"} => tbl[i].role = q.role
      /\ q.search # Absent
           => \/ Contains(tbl[i].email, q.search)
              \/ Contains(tbl[i].full_name, q.search) }

\* C17 as stated: for an admin caller a listing with any combination of the
\* params status, role and search returns 200 with exactly the accounts
\* that the params select, a status or role outside the enumerations being
\* ignored.
C17_ListFilters ==
  [][ \A c \in Creds, q \in ListParams :
        (/\ last'.op = "admin_list"
         /\ last'.caller = c.owner
         /\ IsAdmin(users, c)
         /\ AdminList(c, q))
          => /\ last'.code = 200
             /\ last'.data = { UserSerializer(users, i) : i \in Selected(users, q) } ]_vars

\* C18 as stated: every step that changes a persisted field of an account
\* advances the updated_at of that account, the last_login write of a
\* successful login included, and a request that is refused leaves
\* updated_at as it was.
C18_UpdatedAtOnEveryMutation ==
  [][ /\ \A u \in DOMAIN users :
           users'[u] # users[u] => users'[u].updated_at > users[u].updated_at
      /\ last'.code \in {400, 401, 403, 404}
           => \A u \in DOMAIN users : users'[u].updated_at = users[u].updated_at ]_vars

\* C19: no step removes an account or changes the role, is_staff or
\* is_superuser of an account; an account that a signup creates has role
\* user with both flags false, and an account that is created with role
\* admin comes from the seed path and has both flags true.
C19_RoleFixedAtCreation ==
  [][ /\ DOMAIN users \subseteq DOMAIN users'
      /\ \A u \in DOMAIN users :
           /\ users'[u].role = users[u].role
           /\ users'[u].is_staff = users[u].is_staff
           /\ users'[u].is_superuser = users[u].is_superuser
      /\ Len(users') > Len(users)
           => /\ Len(users') = Len(users) + 1
              /\ last'.op = "signup"
                   => /\ Created.role = "user"
                      /\ ~Created.is_staff
                      /\ ~Created.is_superuser
              /\ Created.role = "admin"
                   => /\ last'.op \in {"create_admin", "seed"}
                      /\ Created.is_staff
                      /\ Created.is_superuser ]_vars

\* C19 witness: an account that signed up has updated its profile and has
\* been deactivated by the admin, and is a user still
C19_Witness ==
  \E u \in DOMAIN users :
    /\ users[u].role = "user"
    /\ ~users[u].is_staff
    /\ users[u].status = "inactive"
    /\ users[u].updated_at > 2
    /\ users[u].full_name = Strip(NameOther)
    /\ \E a \in DOMAIN users : users[a].role = "admin" /\ users[a].is_superuser

\* C20 as stated: while an account is inactive, every activate or deactivate
\* request made with an access token of that account is denied and leaves
\* every status as it was.
C20_InactiveAdminPowerless ==
  [][ (/\ last'.op \in {"activate", "deactivate"}
       /\ last'.authed
       /\ last'.caller \in DOMAIN users
       /\ users[last'.caller].status = "inactive")
      => /\ last'.code \in {401, 403}
         /\ StatusKept ]_vars

\* C21 as stated: the save of a profile update or of a password change
\* leaves the caller's status as it is in the table at that moment; when a
\* deactivation of the caller was committed after the request loaded the
\* row, the caller is inactive still once the request has saved.
C21_StatusSurvivesSelfSave ==
  [][ \A r \in inflight \ inflight' :
        r.op \in {"profile_put", "change_password"}
          => users'[r.cred.owner].status = users[r.cred.owner].status ]_vars

\* C22 as stated: a refresh token that a logout request puts on the
\* blacklist was issued to the account that the request authenticated as.
C22_LogoutOwnTokenOnly ==
  [][ \A j \in blacklist' \ blacklist :
        last'.op = "logout" => outstanding[j] = last'.caller ]_vars

\* C23 as stated: once the table holds an administrator (every account is
\* created active), every state reached through activate and deactivate
\* requests holds at least one account with role admin and status active.
C23_ActiveAdminRemains ==
  (\E u \in DOMAIN users : users[u].role = "admin")
    => \E u \in DOMAIN users :
         users[u].role = "admin" /\ users[u].status = "active"

\* C24 as stated: a login with the email and the password that an account
\* was created with, through the manager or through signup, succeeds while
\* the account is active and its hash is the one of that password: 200 with
\* a token pair for that account, and last_login advances.
C24_CreatedAccountLogsIn ==
  [][ \A e \in CreatedEmails, p \in CreatedPasswords :
        (last'.op = "login" /\ Login(e, p))
          => \A u \in DOMAIN users :
               (/\ users[u].email \in {normalize_email(e), Lower(CharField(e))}
                /\ check_password(p, users[u].password)
                /\ users[u].status = "active")
                 => /\ last'.code = 200
                    /\ last'.issued
                    /\ last'.target = u
                    /\ [owner |-> u] \in access'
                    /\ users'[u].last_login > users[u].last_login ]_vars

====
